---- MODULE Spec2Model ----
(***************************************************************************)
(* Model of pipecat's TaskObserver (pipeline/task_observer.py) and of the  *)
(* task helpers it is built on (utils/utils.py): create_task,             *)
(* wait_for_task, cancel_task and the process-wide set _TASKS.            *)
(*                                                                         *)
(* The scheduler is asyncio's single-threaded event loop: one action is   *)
(* the code a task or a caller runs between two suspension points.        *)
(***************************************************************************)
EXTENDS Integers, Sequences, FiniteSets, TLC

\* ------------------------------------------------------------------ bounds
MaxObservers == 2
MaxStandalone == 1
MaxEvents == 2
MaxCalls == 2
MaxFairCalls == 1

\* ------------------------------------------------------- program constants
\* asyncio.Queue() is built without a maxsize: 0 means unbounded.
maxsize == 0
\* timeout: Optional[float] = None; None is modelled as -1, 0 is the falsy
\* float and 1 stands for any T > 0.
None == 0 - 1
Timeouts == {None, 0, 1}
\* The frame passed to on_push_frame: it is carried, never inspected. An
\* event is told from the others by its timestamp.
Frames == {"F1"}

TaskIds == 1..(MaxObservers + MaxStandalone)
Calls == 1..MaxCalls

VARIABLES
    observers,    \* number of observers TaskObserver.__init__ was given; None before it
    proxies,      \* self._proxies: the proxies' task handles, in order
    standalone,   \* handles made by create_task outside the TaskObserver
    _TASKS,        \* utils._TASKS
    tstate,       \* asyncio.Task state: none, pending, done, exception, cancelled
    pc,           \* where the task's coroutine is suspended
    must_cancel,  \* task.cancel() was called and the CancelledError is not yet thrown in
    queue,        \* Proxy.queue of each proxy task
    received,     \* history: events the observer was handed, per proxy task
    sent,         \* history: events passed to on_push_frame, in call order
    failed,       \* history: the task's work raised a non-cancellation failure
    calls,        \* the wait_for_task / cancel_task / stop calls made, and how they ended
    log           \* loguru entries above trace level

vars == <<observers, proxies, standalone, _TASKS, tstate, pc, must_cancel, queue,
          received, sent, failed, calls, log>>

taskVars == <<tstate, pc, must_cancel, queue, received, failed>>
callVars == <<calls>>

\* ------------------------------------------------------------------ helpers
Range(s) == {s[i] : i \in 1..Len(s)}

IsPrefix(s, t) == Len(s) <= Len(t) /\ \A i \in 1..Len(s) : s[i] = t[i]

Terminal(t) == tstate[t] \in {"done", "exception", "cancelled"}

\* The handle the next loop.create_task() call returns: a new object. The
\* handles of the proxies are named 1..MaxObservers, the others follow.
NewTask(used, pool) == CHOOSE t \in pool \ used : \A u \in pool \ used : t <= u

ProxyIds == 1..MaxObservers
StandaloneIds == TaskIds \ ProxyIds

Created == {t \in TaskIds : tstate[t] # "none"}

Constructed == observers # None

\* A call that has not been made yet.
IdleCall == [op |-> "idle", task |-> 0, timeout |-> None, pc |-> "idle", idx |-> 0,
             exc |-> "none", raised |-> "none", removed |-> FALSE]

\* Calls are numbered in the order they are made.
NextCall(c) == calls[c].op = "idle" /\ \A d \in Calls : d < c => calls[d].op # "idle"

\* full() of a queue built with room for one item.
full_bounded(q) == Len(q) >= 1

\* asyncio.Queue.full(): never for maxsize <= 0.
full(q) == IF maxsize <= 0 THEN FALSE ELSE Len(q) >= maxsize

\* create_tasks that hands out one task for all the observers.
create_tasks_shared(n, used) ==
    IF n = 0 THEN <<>> ELSE [i \in 1..n |-> NewTask(used, ProxyIds)]

\* ------------------------------------------------------------- create_task
\* loop.create_task(run_coroutine()); _TASKS.add(task): the task is pending
\* and has not run yet.
RECURSIVE create_tasks(_, _)
create_tasks(n, used) ==
    IF n = 0 THEN <<>>
    ELSE LET t == NewTask(used, ProxyIds) IN <<t>> \o create_tasks(n - 1, used \cup {t})

\* _create_proxies with the tasks made by loop.create_task directly, so that
\* they are never added to _TASKS.
_create_proxies_unregistered(n) ==
    LET new == create_tasks(n, Created) IN
    /\ proxies' = new
    /\ _TASKS' = _TASKS
    /\ tstate' = [t \in TaskIds |-> IF t \in Range(new) THEN "pending" ELSE tstate[t]]
    /\ pc' = [t \in TaskIds |-> IF t \in Range(new) THEN "created" ELSE pc[t]]
    /\ queue' = [t \in TaskIds |-> IF t \in Range(new) THEN <<>> ELSE queue[t]]

\* _create_proxies: one queue and one task per observer, in order.
_create_proxies(n) ==
    LET new == create_tasks(n, Created) IN
    /\ proxies' = new
    /\ _TASKS' = _TASKS \cup Range(new)
    /\ tstate' = [t \in TaskIds |-> IF t \in Range(new) THEN "pending" ELSE tstate[t]]
    /\ pc' = [t \in TaskIds |-> IF t \in Range(new) THEN "created" ELSE pc[t]]
    /\ queue' = [t \in TaskIds |-> IF t \in Range(new) THEN <<>> ELSE queue[t]]

\* TaskObserver.__init__(observers)
Construct(n) ==
    /\ ~Constructed
    /\ observers' = n
    /\ _create_proxies(n)
    /\ UNCHANGED <<standalone, must_cancel, received, sent, failed, callVars, log>>

\* create_task(loop, coroutine, name) called outside the TaskObserver.
CreateStandalone ==
    /\ Cardinality(standalone) < MaxStandalone
    /\ LET t == NewTask(Created, StandaloneIds) IN
        /\ standalone' = standalone \cup {t}
        /\ _TASKS' = _TASKS \cup {t}
        /\ tstate' = [tstate EXCEPT ![t] = "pending"]
        /\ pc' = [pc EXCEPT ![t] = "created"]
    /\ UNCHANGED <<observers, proxies, must_cancel, queue, received, sent, failed,
                   callVars, log>>

\* on_push_frame that leaves its loop after the first proxy.
on_push_frame_first_only(frame) ==
    /\ Constructed
    /\ Len(sent) < MaxEvents
    /\ LET data == [frame |-> frame, timestamp |-> Len(sent) + 1] IN
        /\ sent' = Append(sent, data)
        /\ queue' = [t \in TaskIds |->
                        IF proxies # <<>> /\ t = proxies[1]
                        THEN Append(queue[t], data) ELSE queue[t]]
    /\ UNCHANGED <<observers, proxies, standalone, _TASKS, tstate, pc, must_cancel,
                   received, failed, callVars, log>>

\* ------------------------------------------------------------ on_push_frame
\* for proxy in self._proxies: await proxy.queue.put(data). put() suspends
\* only on a full queue, so with unbounded queues the loop runs in one step.
on_push_frame(frame) ==
    /\ Constructed
    /\ Len(sent) < MaxEvents
    /\ \A t \in Range(proxies) : ~full(queue[t])
    /\ LET data == [frame |-> frame, timestamp |-> Len(sent) + 1] IN
        /\ sent' = Append(sent, data)
        /\ queue' = [t \in TaskIds |->
                        IF t \in Range(proxies) THEN Append(queue[t], data) ELSE queue[t]]
    /\ UNCHANGED <<observers, proxies, standalone, _TASKS, tstate, pc, must_cancel,
                   received, failed, callVars, log>>

\* ----------------------------------------------------------- run_coroutine
LogEntry(level, site, t) == [level |-> level, site |-> site, task |-> t]

\* run_coroutine without the re-raise in its except CancelledError clause.
run_coroutine_no_reraise(out) ==
    CASE out = "return" -> "done"
      [] out = "CancelledError" -> "done"
      [] out = "Exception" -> "done"

\* run_coroutine without its except Exception clause.
run_coroutine_no_absorb(out) ==
    CASE out = "return" -> "done"
      [] out = "CancelledError" -> "cancelled"
      [] out = "Exception" -> "exception"

\* create_task.run_coroutine: how the task ends for each way `await coroutine`
\* can end. CancelledError is re-raised, any other Exception is logged and
\* absorbed, so the task completes normally.
run_coroutine(out) ==
    CASE out = "return" -> "done"
      [] out = "CancelledError" -> "cancelled"
      [] out = "Exception" -> "done"

run_coroutine_log(out, t) ==
    IF out = "Exception" THEN {LogEntry("exception", "run_coroutine", t)} ELSE {}

TaskEnds(t, out) ==
    /\ tstate' = [tstate EXCEPT ![t] = run_coroutine(out)]
    /\ pc' = [pc EXCEPT ![t] = "end"]
    /\ failed' = [failed EXCEPT ![t] = failed[t] \/ out = "Exception"]
    /\ log' = log \cup run_coroutine_log(out, t)

\* ProxyLoop with the queue read from the wrong end.
ProxyLoop_lifo(t) ==
    IF queue[t] = <<>>
    THEN /\ pc' = [pc EXCEPT ![t] = "waiting"]
         /\ UNCHANGED <<queue, received>>
    ELSE /\ pc' = [pc EXCEPT ![t] = "dispatching"]
         /\ received' = [received EXCEPT ![t] = Append(received[t], queue[t][Len(queue[t])])]
         /\ queue' = [queue EXCEPT ![t] = SubSeq(queue[t], 1, Len(queue[t]) - 1)]

\* ------------------------------------------------------ _proxy_task_handler
\* data = await queue.get(): returns at once when the queue holds an item,
\* suspends on an empty queue. Then observer.on_push_frame(data...) is called.
ProxyLoop(t) ==
    IF queue[t] = <<>>
    THEN /\ pc' = [pc EXCEPT ![t] = "waiting"]
         /\ UNCHANGED <<queue, received>>
    ELSE /\ pc' = [pc EXCEPT ![t] = "dispatching"]
         /\ received' = [received EXCEPT ![t] = Append(received[t], Head(queue[t]))]
         /\ queue' = [queue EXCEPT ![t] = Tail(queue[t])]

Runnable(t) == tstate[t] = "pending" /\ ~must_cancel[t]

\* First step of a task: the coroutine runs up to its first suspension.
Start(t) ==
    /\ Runnable(t) /\ pc[t] = "created"
    /\ IF t \in Range(proxies)
       THEN ProxyLoop(t)
       ELSE pc' = [pc EXCEPT ![t] = "running"] /\ UNCHANGED <<queue, received>>
    /\ UNCHANGED <<observers, proxies, standalone, _TASKS, tstate, must_cancel, sent,
                   failed, callVars, log>>

\* The getter future of a waiting proxy was resolved by a put().
QueueGet(t) ==
    /\ Runnable(t) /\ pc[t] = "waiting" /\ queue[t] # <<>>
    /\ ProxyLoop(t)
    /\ UNCHANGED <<observers, proxies, standalone, _TASKS, tstate, must_cancel, sent,
                   failed, callVars, log>>

\* The observer's on_push_frame returns: back to the top of `while True`.
ObserverReturns(t) ==
    /\ Runnable(t) /\ pc[t] = "dispatching"
    /\ ProxyLoop(t)
    /\ UNCHANGED <<observers, proxies, standalone, _TASKS, tstate, must_cancel, sent,
                   failed, callVars, log>>

\* ObserverRaises with the failure caught inside the loop: the proxy carries on.
ObserverRaises_resume(t) ==
    /\ Runnable(t) /\ pc[t] = "dispatching"
    /\ ProxyLoop(t)
    /\ failed' = [failed EXCEPT ![t] = TRUE]
    /\ log' = log \cup run_coroutine_log("Exception", t)
    /\ UNCHANGED <<observers, proxies, standalone, _TASKS, tstate, must_cancel, sent, callVars>>

\* The observer's on_push_frame raises an Exception.
ObserverRaises(t) ==
    /\ Runnable(t) /\ pc[t] = "dispatching"
    /\ TaskEnds(t, "Exception")
    /\ UNCHANGED <<observers, proxies, standalone, _TASKS, must_cancel, queue, received,
                   sent, callVars>>

\* The work of a standalone task returns or raises.
WorkEnds(t, out) ==
    /\ Runnable(t) /\ pc[t] = "running"
    /\ TaskEnds(t, out)
    /\ UNCHANGED <<observers, proxies, standalone, _TASKS, must_cancel, queue, received,
                   sent, callVars>>

\* The event loop throws CancelledError into a task that cancel() was called on.
\* A coroutine that never started is cancelled without running; a proxy waiting
\* in queue.get() lets it through; code suspended in an observer or in
\* standalone work either lets it through or catches it and carries on.
Reactions == {"propagate", "swallow"}

ThrowCancelled(t, reaction) ==
    /\ tstate[t] = "pending" /\ must_cancel[t]
    /\ must_cancel' = [must_cancel EXCEPT ![t] = FALSE]
    /\ IF pc[t] = "created"
       THEN /\ reaction = "propagate"
            /\ tstate' = [tstate EXCEPT ![t] = "cancelled"]
            /\ pc' = [pc EXCEPT ![t] = "end"]
            /\ UNCHANGED <<failed, log>>
       ELSE IF pc[t] = "waiting" \/ reaction = "propagate"
       THEN /\ pc[t] = "waiting" => reaction = "propagate"
            /\ TaskEnds(t, "CancelledError")
       ELSE UNCHANGED <<tstate, pc, failed, log>>
    /\ UNCHANGED <<observers, proxies, standalone, _TASKS, queue, received, sent, callVars>>

\* ------------------------------------------------- wait_for_task, cancel_task
\* What `await task` gives once the task has ended.
AwaitResult(t) ==
    CASE tstate[t] = "done" -> "return"
      [] tstate[t] = "cancelled" -> "CancelledError"
      [] tstate[t] = "exception" -> "Exception"

\* What asyncio.wait_for(task, timeout) gives once the task has ended: after
\* the timeout it cancels the task and waits for it to end, and raises
\* TimeoutError when the task ended cancelled.
WaitForResult(t, timedout) ==
    IF timedout /\ tstate[t] = "cancelled" THEN "TimeoutError" ELSE AwaitResult(t)

\* The test written `if timeout is not None:`.
Truthy_not_none(timeout) == timeout # None

\* `if timeout:` is false for both None and 0.
Truthy(timeout) == timeout # None /\ timeout # 0

\* The except clauses of each function: what is logged for what is caught.
wait_for_task_except(exc, t) ==
    CASE exc = "TimeoutError" -> {LogEntry("warning", "wait_for_task", t)}
      [] exc = "CancelledError" -> {LogEntry("error", "wait_for_task", t)}
      [] exc = "Exception" -> {LogEntry("exception", "wait_for_task", t)}
      [] OTHER -> {}

cancel_task_except(exc, t) ==
    CASE exc = "TimeoutError" -> {LogEntry("warning", "cancel_task", t)}
      [] exc = "CancelledError" -> {}
      [] exc = "Exception" -> {LogEntry("exception", "cancel_task", t)}
      [] OTHER -> {}

Caught == {"TimeoutError", "CancelledError", "Exception"}

\* The removal without its except KeyError clause.
RemoveCaught_none == {}

\* finally: try: _TASKS.remove(task) / except KeyError: logger.error(...)
RemoveCaught == {"KeyError"}

\* The removal done with discard(): an absent handle is no error.
remove_discard(reg, t) == "return"

remove(reg, t) == IF t \in reg THEN "return" ELSE "KeyError"

\* Finish with the removal after the try block instead of in a finally
\* clause of it: skipped when the await raised.
Finish_no_finally(op, t, exc, reg, lg) ==
    LET handled == IF op = "wait_for_task" THEN wait_for_task_except(exc, t)
                   ELSE cancel_task_except(exc, t)
        escaped == IF exc = "return" \/ exc \in Caught THEN "none" ELSE exc
        rm == IF exc = "return" THEN remove(reg, t) ELSE "skipped"
    IN [reg |-> IF exc = "return" THEN reg \ {t} ELSE reg,
        log |-> lg \cup handled \cup
                (IF rm \in RemoveCaught
                 THEN {LogEntry("error", IF op = "wait_for_task" THEN op ELSE "cancel_task", t)}
                 ELSE {}),
        removed |-> rm = "return",
        raised |-> IF rm \notin {"return", "skipped"} /\ rm \notin RemoveCaught
                   THEN rm ELSE escaped]

\* Finish that empties the registry instead of removing the one handle.
Finish_clear(op, t, exc, reg, lg) ==
    LET handled == IF op = "wait_for_task" THEN wait_for_task_except(exc, t)
                   ELSE cancel_task_except(exc, t)
        escaped == IF exc = "return" \/ exc \in Caught THEN "none" ELSE exc
        rm == remove(reg, t)
    IN [reg |-> {},
        log |-> lg \cup handled,
        removed |-> rm = "return",
        raised |-> escaped]

\* The code after the await of wait_for_task / cancel_task, for the outcome
\* exc of the await: the new registry and log, and the exception that leaves
\* the function ("none" when it returns).
Finish(op, t, exc, reg, lg) ==
    LET handled == IF op = "wait_for_task" THEN wait_for_task_except(exc, t)
                   ELSE cancel_task_except(exc, t)
        escaped == IF exc = "return" \/ exc \in Caught THEN "none" ELSE exc
        rm == remove(reg, t)
    IN [reg |-> reg \ {t},
        log |-> lg \cup handled \cup
                (IF rm \in RemoveCaught
                 THEN {LogEntry("error", IF op = "wait_for_task" THEN op ELSE "cancel_task", t)}
                 ELSE {}),
        removed |-> rm = "return",
        raised |-> IF rm # "return" /\ rm \notin RemoveCaught THEN rm ELSE escaped]

Returned(c, op, t, timeout, exc, f) ==
    /\ calls' = [calls EXCEPT ![c] = [op |-> op, task |-> t, timeout |-> timeout,
                                      pc |-> "returned", idx |-> 0, exc |-> exc,
                                      raised |-> f.raised, removed |-> f.removed]]
    /\ _TASKS' = f.reg
    /\ log' = f.log

Suspended(c, op, t, timeout) ==
    /\ calls' = [calls EXCEPT ![c] = [op |-> op, task |-> t, timeout |-> timeout,
                                      pc |-> IF Truthy(timeout) THEN "wait_for" ELSE "await",
                                      idx |-> 0, exc |-> "none", raised |-> "none",
                                      removed |-> FALSE]]
    /\ UNCHANGED <<_TASKS, log>>

\* AwaitTask without the await: the call goes on at once.
AwaitTask_no_wait(c, op, t, timeout) ==
    Returned(c, op, t, timeout, "return", Finish(op, t, "return", _TASKS, log))

\* try: if timeout: await asyncio.wait_for(task, timeout) else: await task.
\* Awaiting a task that has ended does not suspend.
AwaitTask(c, op, t, timeout) ==
    IF Truthy(timeout) \/ ~Terminal(t)
    THEN Suspended(c, op, t, timeout)
    ELSE Returned(c, op, t, timeout, AwaitResult(t),
                  Finish(op, t, AwaitResult(t), _TASKS, log))

wait_for_task(c, t, timeout) ==
    /\ NextCall(c) /\ t \in Created
    /\ AwaitTask(c, "wait_for_task", t, timeout)
    /\ UNCHANGED <<observers, proxies, standalone, taskVars, sent>>

\* A cancel() that marks the task whether or not it has ended.
cancel_always(mc, t) == [mc EXCEPT ![t] = TRUE]

\* task.cancel() does nothing to a task that has ended.
cancel(mc, t) == IF tstate[t] = "pending" THEN [mc EXCEPT ![t] = TRUE] ELSE mc

cancel_task(c, t, timeout) ==
    /\ NextCall(c) /\ t \in Created
    /\ must_cancel' = cancel(must_cancel, t)
    /\ AwaitTask(c, "cancel_task", t, timeout)
    /\ UNCHANGED <<observers, proxies, standalone, tstate, pc, queue, received, failed,
                   sent>>

\* A wait_for that raises TimeoutError as soon as its timer fires.
wait_for_raises_at_once == FALSE

\* asyncio.wait_for, when its timer fires, cancels the task and waits until the
\* cancellation has gone through before it raises TimeoutError.
wait_for_awaits_cancellation == TRUE

\* The timer of asyncio.wait_for fires while the task is still pending.
Timeout(c) ==
    LET op == calls[c].op
        t == calls[c].task
    IN
    /\ calls[c].pc = "wait_for" /\ tstate[t] = "pending"
    /\ must_cancel' = cancel(must_cancel, t)
    /\ IF wait_for_awaits_cancellation
       THEN /\ calls' = [calls EXCEPT ![c].pc = "cancel_and_wait"]
            /\ UNCHANGED <<_TASKS, log>>
       ELSE Returned(c, op, t, calls[c].timeout, "TimeoutError",
                     Finish(op, t, "TimeoutError", _TASKS, log))
    /\ UNCHANGED <<observers, proxies, standalone, tstate, pc, queue, received, failed, sent>>

\* StopLoop that leaves out the proxies whose task has already ended.
RECURSIVE StopLoop_pending_only(_, _, _, _)
StopLoop_pending_only(k, reg, lg, mc) ==
    IF k > Len(proxies)
    THEN [idx |-> k, suspended |-> FALSE, raised |-> "none", reg |-> reg, log |-> lg, mc |-> mc]
    ELSE LET t == proxies[k] IN
         IF tstate[t] = "pending"
         THEN [idx |-> k, suspended |-> TRUE, raised |-> "none", reg |-> reg, log |-> lg,
               mc |-> cancel(mc, t)]
         ELSE StopLoop_pending_only(k + 1, reg, lg, mc)

\* StopLoop that signals every proxy and awaits none of them.
RECURSIVE StopLoop_no_await(_, _, _, _)
StopLoop_no_await(k, reg, lg, mc) ==
    IF k > Len(proxies)
    THEN [idx |-> k, suspended |-> FALSE, raised |-> "none", reg |-> reg, log |-> lg, mc |-> mc]
    ELSE StopLoop_no_await(k + 1, reg, lg, cancel(mc, proxies[k]))

\* ----------------------------------------------------------------- stop
\* for proxy in self._proxies: await cancel_task(proxy.task), from the k-th
\* proxy on, up to the first await that suspends (or to the end).
RECURSIVE StopLoop(_, _, _, _)
StopLoop(k, reg, lg, mc) ==
    IF k > Len(proxies)
    THEN [idx |-> k, suspended |-> FALSE, raised |-> "none", reg |-> reg, log |-> lg, mc |-> mc]
    ELSE LET t == proxies[k] IN
         IF tstate[t] = "pending"
         THEN [idx |-> k, suspended |-> TRUE, raised |-> "none", reg |-> reg, log |-> lg,
               mc |-> cancel(mc, t)]
         ELSE LET f == Finish("cancel_task", t, AwaitResult(t), reg, lg) IN
              IF f.raised # "none"
              THEN [idx |-> k, suspended |-> FALSE, raised |-> f.raised, reg |-> f.reg,
                    log |-> f.log, mc |-> cancel(mc, t)]
              ELSE StopLoop(k + 1, f.reg, f.log, cancel(mc, t))

StopStep(c, r) ==
    /\ _TASKS' = r.reg
    /\ log' = r.log
    /\ must_cancel' = r.mc
    /\ calls' = [calls EXCEPT ![c] =
                    [op |-> "stop", task |-> IF r.suspended THEN proxies[r.idx] ELSE 0,
                     timeout |-> None, pc |-> IF r.suspended THEN "await" ELSE "returned",
                     idx |-> r.idx, exc |-> "none", raised |-> r.raised, removed |-> FALSE]]

stop(c) ==
    /\ NextCall(c) /\ Constructed
    /\ StopStep(c, StopLoop(1, _TASKS, log, must_cancel))
    /\ UNCHANGED <<observers, proxies, standalone, tstate, pc, queue, received, failed, sent>>

\* The awaited task has ended: the suspended call runs on.
Resume(c) ==
    LET op == calls[c].op
        t == calls[c].task
        exc == IF calls[c].pc = "await" THEN AwaitResult(t)
               ELSE WaitForResult(t, calls[c].pc = "cancel_and_wait")
        f == Finish(IF op = "stop" THEN "cancel_task" ELSE op, t, exc, _TASKS, log)
    IN
    /\ calls[c].pc \in {"await", "wait_for", "cancel_and_wait"} /\ Terminal(t)
    /\ IF op = "stop"
       THEN StopStep(c, IF f.raised # "none"
                        THEN [idx |-> calls[c].idx, suspended |-> FALSE, raised |-> f.raised,
                              reg |-> f.reg, log |-> f.log, mc |-> must_cancel]
                        ELSE StopLoop(calls[c].idx + 1, f.reg, f.log, must_cancel))
       ELSE /\ Returned(c, op, t, calls[c].timeout, exc, f)
            /\ UNCHANGED must_cancel
    /\ UNCHANGED <<observers, proxies, standalone, tstate, pc, queue, received, failed, sent>>

Init ==
    /\ observers = None
    /\ proxies = <<>>
    /\ standalone = {}
    /\ _TASKS = {}
    /\ tstate = [t \in TaskIds |-> "none"]
    /\ pc = [t \in TaskIds |-> "none"]
    /\ must_cancel = [t \in TaskIds |-> FALSE]
    /\ queue = [t \in TaskIds |-> <<>>]
    /\ received = [t \in TaskIds |-> <<>>]
    /\ sent = <<>>
    /\ failed = [t \in TaskIds |-> FALSE]
    /\ calls = [c \in Calls |-> IdleCall]
    /\ log = {}

\* The steps of the program when the calls are those of C.
NextFor(C) ==
    \/ \E n \in 0..MaxObservers : Construct(n)
    \/ CreateStandalone
    \/ \E f \in Frames : on_push_frame(f)
    \/ \E t \in TaskIds : Start(t)
    \/ \E t \in TaskIds : QueueGet(t)
    \/ \E t \in TaskIds : ObserverReturns(t)
    \/ \E t \in TaskIds : ObserverRaises(t)
    \/ \E t \in TaskIds, out \in {"return", "Exception"} : WorkEnds(t, out)
    \/ \E t \in TaskIds, r \in Reactions : ThrowCancelled(t, r)
    \/ \E c \in C, t \in TaskIds, timeout \in Timeouts : wait_for_task(c, t, timeout)
    \/ \E c \in C, t \in TaskIds, timeout \in Timeouts : cancel_task(c, t, timeout)
    \/ \E c \in C : Timeout(c)
    \/ \E c \in C : stop(c)
    \/ \E c \in C : Resume(c)

Next == NextFor(Calls)

Spec == Init /\ [][Next]_vars

\* The event loop runs every callback that is ready: a task that was started,
\* woken or cancelled takes its step, a caller whose awaited task has ended
\* resumes, and a timer that is due fires. Nothing makes an observer return or
\* a caller call.
Fairness ==
    /\ \A t \in TaskIds : WF_vars(Start(t))
    /\ \A t \in TaskIds : WF_vars(QueueGet(t))
    /\ \A t \in TaskIds : WF_vars(\E r \in Reactions : ThrowCancelled(t, r))
    /\ \A c \in Calls : WF_vars(Timeout(c))
    /\ \A c \in Calls : WF_vars(Resume(c))

\* Liveness is checked for the program that makes at most MaxFairCalls calls.
FairCalls == {c \in Calls : c <= MaxFairCalls}
FairNext == NextFor(FairCalls)

FairSpec == Init /\ [][FairNext]_vars /\ Fairness

\* The same with observers whose handling calls do not block for ever.
DeliverySpec ==
    Init /\ [][FairNext]_vars /\ Fairness /\ \A t \in TaskIds : WF_vars(ObserverReturns(t))

\* =================================================================== claims
Last(q) == q[Len(q)]

InProgress(c) == calls[c].pc \in {"await", "wait_for", "cancel_and_wait"}

StopReturned == \E c \in Calls : calls[c].op = "stop" /\ calls[c].pc = "returned"

\* C1: what each observer has been handed is, in every reachable state, a
\* prefix of the events passed to on_push_frame in call order: nothing is
\* reordered, skipped or handed over twice.
C1_ReceivedIsPrefixOfSent ==
    \A t \in Range(proxies) : IsPrefix(received[t], sent)

C1_Witness ==
    /\ Len(proxies) = 2 /\ Len(sent) = 2
    /\ received[proxies[1]] = sent
    /\ Len(received[proxies[2]]) = 1

\* C2: once a stop() call has returned, no proxy task of the TaskObserver is
\* in _TASKS, whatever the proxies were doing when stop() was called.
C2_StopEmptiesRegistry ==
    StopReturned => Range(proxies) \cap _TASKS = {}

C2_Witness ==
    /\ StopReturned /\ Len(proxies) = 2
    /\ failed[proxies[1]] /\ tstate[proxies[1]] = "done"
    /\ tstate[proxies[2]] = "cancelled" /\ queue[proxies[2]] # <<>>

\* C3: the step that constructs a TaskObserver with N observers adds exactly N
\* new, distinct handles to _TASKS, one per proxy, each pending, not yet
\* started and paired with an empty queue, and removes none.
C3_ConstructAddsNTasks ==
    [][~Constructed /\ Constructed' =>
        /\ Len(proxies') = observers'
        /\ Cardinality(_TASKS' \ _TASKS) = observers'
        /\ _TASKS' \ _TASKS = Range(proxies')
        /\ _TASKS \subseteq _TASKS'
        /\ \A t \in Range(proxies') :
              tstate[t] = "none" /\ tstate'[t] = "pending" /\ pc'[t] = "created"
              /\ queue'[t] = <<>>]_vars

C3_Witness ==
    /\ observers = 2 /\ Cardinality(Range(proxies)) = 2
    /\ standalone # {} /\ Cardinality(_TASKS) = 3
    /\ \A t \in Range(proxies) : pc[t] = "created"

\* C4: once an observer's handling call has raised a failure, that observer is
\* handed no further event and its task stays ended, its queue only grows
\* (every later on_push_frame still appends to it), and the failure leaves
\* the other proxies as they were, so they go on receiving.
C4_FailedObserverTerminated ==
    [][\A t \in Range(proxies) :
        /\ failed[t] =>
              /\ received'[t] = received[t]
              /\ tstate[t] = "done" /\ tstate'[t] = "done"
              /\ IsPrefix(queue[t], queue'[t])
              /\ sent' # sent => queue'[t] = Append(queue[t], Last(sent'))
        /\ (~failed[t] /\ failed'[t]) =>
              \A u \in Range(proxies) \ {t} :
                  /\ tstate'[u] = tstate[u] /\ pc'[u] = pc[u]
                  /\ must_cancel'[u] = must_cancel[u]
                  /\ queue'[u] = queue[u] /\ received'[u] = received[u]]_vars

C4_Witness ==
    /\ Len(proxies) = 2 /\ Len(sent) = 2
    /\ failed[proxies[1]] /\ Len(received[proxies[1]]) = 1
    /\ queue[proxies[1]] = <<sent[2]>>
    /\ received[proxies[2]] = sent /\ tstate[proxies[2]] = "pending"

\* C5: once an observer's handling call has failed and the wrapper has absorbed
\* the failure, the proxy's handle is out of _TASKS, with no stop(),
\* wait_for_task or cancel_task called on it.
C5_FailedHandleRemoved ==
    \A t \in Range(proxies) : failed[t] => t \notin _TASKS

\* C6: in every reachable state an on_push_frame call can run to its end,
\* appending the event to every proxy's queue, without any task or caller
\* taking a step.
C6_OnPushFrameNeverWaits ==
    (Constructed /\ Len(sent) < MaxEvents) =>
        \A f \in Frames :
            ENABLED (/\ on_push_frame(f)
                     /\ \A t \in Range(proxies) : queue'[t] = Append(queue[t], Last(sent'))
                     /\ UNCHANGED <<tstate, pc, must_cancel, received, calls, _TASKS>>)

C6_Witness ==
    /\ Len(proxies) = 2 /\ Len(sent) = 1
    /\ pc[proxies[1]] = "dispatching" /\ tstate[proxies[1]] = "pending"
    /\ tstate[proxies[2]] = "done" /\ failed[proxies[2]]
    /\ \E c \in Calls : calls[c].op = "wait_for_task" /\ calls[c].task = proxies[1]
                          /\ calls[c].pc = "await"

\* C7: no call of wait_for_task, cancel_task or stop ends with an exception,
\* no task made by create_task ends with one, and every failure is in the log:
\* the work's failure, a timeout, an exception of the awaited task, a handle
\* that was already out of _TASKS.
C7_NothingPropagates ==
    /\ \A t \in TaskIds :
          /\ tstate[t] # "exception"
          /\ failed[t] => LogEntry("exception", "run_coroutine", t) \in log
    /\ \A c \in Calls :
          /\ calls[c].raised = "none"
          /\ (calls[c].pc = "returned" /\ calls[c].op \in {"wait_for_task", "cancel_task"}) =>
                /\ calls[c].exc = "TimeoutError" =>
                      LogEntry("warning", calls[c].op, calls[c].task) \in log
                /\ calls[c].exc = "Exception" =>
                      LogEntry("exception", calls[c].op, calls[c].task) \in log
                /\ ~calls[c].removed => LogEntry("error", calls[c].op, calls[c].task) \in log

C7_Witness ==
    \E c, d \in Calls : \E s \in standalone :
        /\ calls[c].pc = "returned" /\ calls[c].op = "cancel_task"
        /\ calls[c].exc = "CancelledError" /\ calls[c].removed
        /\ calls[d].pc = "returned" /\ calls[d].op = "wait_for_task"
        /\ calls[d].task = calls[c].task /\ ~calls[d].removed
        /\ failed[s] /\ tstate[s] = "done"

\* C8: a wait_for_task call returns only once its task has ended, also after
\* its timeout has elapsed: it has not raised and the handle is out of _TASKS,
\* and when it ended by the timeout a warning is logged and the task is
\* cancelled, not running.
C8_TimedOutWaitLeavesTaskCancelled ==
    \A c \in Calls :
        (calls[c].op = "wait_for_task" /\ calls[c].pc = "returned") =>
            /\ calls[c].raised = "none"
            /\ calls[c].task \notin _TASKS
            /\ Terminal(calls[c].task)
            /\ calls[c].exc = "TimeoutError" =>
                  /\ Truthy(calls[c].timeout)
                  /\ LogEntry("warning", "wait_for_task", calls[c].task) \in log
                  /\ tstate[calls[c].task] = "cancelled"

C8_Witness ==
    \E c \in Calls :
        /\ calls[c].op = "wait_for_task" /\ calls[c].pc = "returned"
        /\ calls[c].exc = "TimeoutError" /\ calls[c].removed
        /\ calls[c].task \in Range(proxies)

\* C8 as claimed: once the timeout of a wait_for_task call has elapsed, the
\* call has returned and the handle is out of _TASKS, whether or not the task
\* is still running.
TimeoutElapsed(c) ==
    \/ calls[c].pc = "cancel_and_wait"
    \/ calls[c].pc = "returned" /\ calls[c].exc = "TimeoutError"

C8_ReturnsOnceTimeoutElapses ==
    \A c \in Calls :
        (calls[c].op = "wait_for_task" /\ TimeoutElapsed(c)) =>
            calls[c].pc = "returned" /\ calls[c].task \notin _TASKS

Returns(c) == calls[c].pc # "returned" /\ calls'[c].pc = "returned"

\* C9: the step in which a wait_for_task or cancel_task call returns takes the
\* call's handle out of _TASKS and no other handle, by one removal that
\* succeeds exactly when the handle was still in _TASKS, whatever the await
\* gave (return, CancelledError, TimeoutError); and a handle leaves _TASKS
\* in no other way than by such a return or by the cancel_task calls of stop().
C9_ReturnRemovesHandle ==
    [][/\ \A c \in Calls :
            (Returns(c) /\ calls'[c].op \in {"wait_for_task", "cancel_task"}) =>
                /\ _TASKS' = _TASKS \ {calls'[c].task}
                /\ calls'[c].removed = (calls'[c].task \in _TASKS)
       /\ \A t \in _TASKS \ _TASKS' :
            /\ Terminal(t)
            /\ \E c \in Calls :
                  \/ Returns(c) /\ calls'[c].task = t
                  \/ calls'[c].op = "stop" /\ calls'[c] # calls[c] /\ t \in Range(proxies)]_vars

C9_Witness ==
    \E c, d \in Calls :
        /\ calls[c].pc = "returned" /\ calls[c].op = "wait_for_task"
        /\ calls[c].exc = "TimeoutError" /\ calls[c].removed
        /\ calls[d].pc = "returned" /\ calls[d].op = "cancel_task"
        /\ calls[d].exc = "return" /\ calls[d].removed
        /\ _TASKS # {}

\* C10: a cancel_task call on a proxy task that is suspended in queue.get() on
\* an empty queue eventually returns without raising, with the task cancelled
\* and its handle out of _TASKS.
C10_CancelWaitingProxyReturns ==
    \A c \in Calls : \A t \in ProxyIds :
        (/\ calls[c].op = "cancel_task" /\ calls[c].task = t /\ InProgress(c)
         /\ tstate[t] = "pending" /\ pc[t] = "waiting" /\ queue[t] = <<>>
         /\ must_cancel[t])
        ~> (/\ calls[c].pc = "returned" /\ calls[c].raised = "none"
            /\ tstate[t] = "cancelled" /\ t \notin _TASKS)

C10_Witness ==
    \E c \in Calls : \E t \in ProxyIds :
        /\ calls[c].op = "cancel_task" /\ calls[c].task = t /\ InProgress(c)
        /\ tstate[t] = "pending" /\ pc[t] = "waiting" /\ queue[t] = <<>>
        /\ must_cancel[t]

\* C11: a stop() call made after a stop() call has returned returns in the
\* same step without raising and changes neither _TASKS nor any task: every
\* proxy's state and pending cancellation stay as they were, and each absent
\* handle is logged as an error.
StopCalled(c) == calls[c].op = "idle" /\ calls'[c].op = "stop"

C11_SecondStopChangesNothing ==
    [][\A c \in Calls :
        (StopReturned /\ StopCalled(c)) =>
            /\ calls'[c].pc = "returned" /\ calls'[c].raised = "none"
            /\ _TASKS' = _TASKS
            /\ UNCHANGED <<tstate, pc, must_cancel, queue, received>>
            /\ \A t \in Range(proxies) : LogEntry("error", "cancel_task", t) \in log']_vars

C11_Witness ==
    /\ Len(proxies) = 2
    /\ \A c \in Calls : calls[c].op = "stop" /\ calls[c].pc = "returned"
    /\ \A t \in Range(proxies) :
          tstate[t] = "cancelled" /\ LogEntry("error", "cancel_task", t) \in log

\* C12: of the wait_for_task and cancel_task calls made on one handle, in any
\* order and interleaving, none raises, at most one removes the handle, every
\* other one logs the failed removal as an error, the first of them to return
\* does remove it unless a stop() took it out, and the handle is out of
\* _TASKS once any of them has returned.
OnHandle(c, t) == calls[c].op \in {"wait_for_task", "cancel_task"} /\ calls[c].task = t

C12_RemovalToleratesAbsentHandle ==
    \A t \in TaskIds :
        LET done == {c \in Calls : OnHandle(c, t) /\ calls[c].pc = "returned"}
            removers == {c \in done : calls[c].removed}
        IN /\ \A c \in Calls : OnHandle(c, t) => calls[c].raised = "none"
           /\ Cardinality(removers) <= 1
           /\ \A c \in done \ removers : LogEntry("error", calls[c].op, t) \in log
           /\ done # {} => t \notin _TASKS
           /\ (done # {} /\ \A c \in Calls : calls[c].op # "stop") => removers # {}

C12_Witness ==
    \E c, d \in Calls : \E t \in TaskIds :
        /\ c < d /\ OnHandle(c, t) /\ OnHandle(d, t)
        /\ calls[c].op = "wait_for_task" /\ calls[d].op = "cancel_task"
        /\ calls[c].pc = "returned" /\ calls[d].pc = "returned"
        /\ calls[d].removed /\ ~calls[c].removed

\* C13: in every reachable state, every task made by create_task that has not
\* ended yet (neither completed nor cancelled) is in _TASKS.
C13_PendingTasksRegistered ==
    \A t \in TaskIds : tstate[t] = "pending" => t \in _TASKS

C13_Witness ==
    \E c \in Calls :
        /\ calls[c].op = "wait_for_task" /\ calls[c].pc = "cancel_and_wait"
        /\ tstate[calls[c].task] = "pending" /\ ~must_cancel[calls[c].task]
        /\ calls[c].task \in _TASKS
        /\ \E d \in Calls : d # c /\ calls[d].pc = "returned"

Signalled(t) == tstate[t] = "pending" /\ must_cancel[t] /\ ~must_cancel'[t]

\* C14 as claimed: a task ends cancelled in exactly the steps in which a
\* CancelledError is thrown into its executing work.
C14_CancelledIffSignalledWhileExecuting ==
    [][\A t \in TaskIds :
        (tstate[t] = "pending" /\ tstate'[t] = "cancelled")
            <=> (Signalled(t) /\ pc[t] # "created")]_vars

\* C14: a task ends cancelled only in a step that throws a CancelledError
\* into it, and always does so when it had not started or was suspended in
\* queue.get(); work that catches the signal carries on uncancelled. When
\* the work raises any other failure the task ends completed with the failure
\* logged, and no wait_for_task or cancel_task call gets an Exception from
\* its await.
C14_WrapperReraisesAndAbsorbs ==
    [][/\ \A t \in TaskIds :
            /\ (tstate[t] = "pending" /\ tstate'[t] = "cancelled") => Signalled(t)
            /\ (Signalled(t) /\ pc[t] \in {"created", "waiting"}) => tstate'[t] = "cancelled"
            /\ (Signalled(t) /\ tstate'[t] # "cancelled") =>
                  tstate'[t] = "pending" /\ pc'[t] = pc[t]
            /\ (~failed[t] /\ failed'[t]) =>
                  /\ tstate'[t] = "done"
                  /\ LogEntry("exception", "run_coroutine", t) \in log'
       /\ \A c \in Calls : calls'[c].exc # "Exception"]_vars

C14_Witness ==
    \E c \in Calls : \E t, u \in TaskIds :
        /\ calls[c].pc = "returned" /\ calls[c].task = t
        /\ failed[t] /\ tstate[t] = "done" /\ calls[c].exc = "return"
        /\ tstate[u] = "cancelled" /\ u \in Range(proxies) /\ received[u] # <<>>

\* C15: a wait_for_task or cancel_task call made without a timeout (None or
\* 0) has returned only if its task has ended, completed or cancelled, and a
\* stop() call only if every proxy task has; so only a call with a timeout
\* could return with its task still pending.
C15_UntimedCallReturnsAfterTaskEnded ==
    \A c \in Calls :
        calls[c].pc = "returned" =>
            /\ (calls[c].op \in {"wait_for_task", "cancel_task"} /\ ~Truthy(calls[c].timeout))
                  => tstate[calls[c].task] \in {"done", "cancelled"}
            /\ calls[c].op = "stop" =>
                  \A t \in Range(proxies) : tstate[t] \in {"done", "cancelled"}

C15_Witness ==
    \E c, d \in Calls : \E t \in Range(proxies) : \E s \in standalone :
        /\ calls[c].pc = "returned" /\ calls[c].op = "cancel_task"
        /\ calls[c].timeout = None /\ calls[c].task = t
        /\ tstate[t] = "cancelled" /\ received[t] # <<>> /\ queue[t] = <<>>
        /\ calls[d].pc = "returned" /\ calls[d].op = "wait_for_task"
        /\ calls[d].timeout = 0 /\ calls[d].task = s /\ tstate[s] = "done"

\* C16: every event passed to on_push_frame is eventually handed to every
\* observer, unless the observer's handling call has failed or its proxy
\* task was cancelled (which stop() does).
C16_EveryEventEventuallyDelivered ==
    \A t \in ProxyIds : \A k \in 1..MaxEvents :
        (t \in Range(proxies) /\ Len(sent) >= k)
        ~> (Len(received[t]) >= k \/ failed[t] \/ tstate[t] = "cancelled")

C16_Witness ==
    /\ Len(proxies) = 2 /\ Len(sent) = 2
    /\ \A t \in Range(proxies) :
          received[t] = sent /\ tstate[t] = "pending" /\ pc[t] = "waiting"
    /\ \A c \in Calls : calls[c].op # "stop"

\* C17: once stop() has returned, no observer handling call is started again:
\* no proxy task takes a step and what is queued stays queued, while
\* on_push_frame is still accepted and still appends the event to every
\* proxy's queue.
C17_NoDeliveryAfterStop ==
    [][StopReturned =>
          /\ received' = received
          /\ \A t \in Range(proxies) : Terminal(t) /\ pc'[t] = pc[t] /\ tstate'[t] = tstate[t]
          /\ \A t \in Range(proxies) :
                queue'[t] = IF sent' # sent THEN Append(queue[t], Last(sent')) ELSE queue[t]
          /\ Len(sent) < MaxEvents => ENABLED (\E f \in Frames : on_push_frame(f))]_vars

C17_Witness ==
    /\ StopReturned
    /\ Len(proxies) = 2 /\ Len(sent) = 2
    /\ Len(received[proxies[1]]) = 1 /\ Len(queue[proxies[1]]) = 1
    /\ received[proxies[2]] = <<>> /\ queue[proxies[2]] = sent

\* The stop() call c takes a step: its first one or a resumption.
StopSteps(c) == calls'[c] # calls[c] /\ calls'[c].op = "stop"

\* C18: stop() cancels the proxies one after another in construction order:
\* a step of stop() signals proxy j only when every earlier proxy's task has
\* ended and its handle is out of the registry; and while stop() (the only
\* call made) waits for proxy k, a later proxy is not signalled and can still
\* take an event from its queue.
C18_StopCancelsInOrder ==
    [][\A c \in Calls :
          /\ StopSteps(c) =>
                \A j \in 1..Len(proxies) :
                    (must_cancel'[proxies[j]] /\ ~must_cancel[proxies[j]]) =>
                        \A i \in 1..(j - 1) :
                            Terminal(proxies[i]) /\ proxies[i] \notin _TASKS'
          /\ (calls[c].op = "stop" /\ calls[c].pc = "await"
                 /\ \A d \in Calls \ {c} : calls[d].pc = "idle") =>
                \A j \in (calls[c].idx + 1)..Len(proxies) :
                    /\ ~must_cancel[proxies[j]]
                    /\ tstate[proxies[j]] # "cancelled"
                    /\ (tstate[proxies[j]] = "pending" /\ pc[proxies[j]] = "waiting"
                           /\ queue[proxies[j]] # <<>>) => ENABLED QueueGet(proxies[j])]_vars

C18_Witness ==
    \E c \in Calls :
        /\ calls[c].op = "stop" /\ calls[c].pc = "await" /\ calls[c].idx = 2
        /\ \A d \in Calls \ {c} : calls[d].pc = "idle"
        /\ Len(proxies) = 2
        /\ tstate[proxies[1]] = "cancelled" /\ proxies[1] \notin _TASKS
        /\ tstate[proxies[2]] = "pending" /\ must_cancel[proxies[2]]
        /\ proxies[2] \in _TASKS
        /\ Len(received[proxies[2]]) > Len(received[proxies[1]])

\* C19: a call of wait_for_task or cancel_task with timeout 0 never takes the
\* asyncio.wait_for path and never sees TimeoutError: while its task is
\* pending it stays suspended in `await task`, has removed nothing and the
\* handle is still registered. A call with a timeout above 0 waits in
\* asyncio.wait_for, whose timer can fire while the task is pending.
C19_ZeroTimeoutIsNoTimeout ==
    \A c \in Calls :
        calls[c].op \in {"wait_for_task", "cancel_task"} =>
            /\ calls[c].timeout = 0 =>
                  /\ calls[c].pc \in {"await", "returned"}
                  /\ calls[c].exc # "TimeoutError"
                  /\ ~ENABLED Timeout(c)
                  /\ tstate[calls[c].task] = "pending" =>
                        /\ calls[c].pc = "await"
                        /\ ~calls[c].removed
                        /\ calls[c].task \in _TASKS
            /\ calls[c].timeout > 0 =>
                  /\ calls[c].pc \in {"wait_for", "cancel_and_wait", "returned"}
                  /\ (calls[c].pc = "wait_for" /\ tstate[calls[c].task] = "pending")
                        => ENABLED Timeout(c)

C19_Witness ==
    \E c, d \in Calls :
        /\ calls[c].op = "wait_for_task" /\ calls[c].timeout = 0 /\ calls[c].pc = "await"
        /\ calls[c].task \in standalone
        /\ tstate[calls[c].task] = "pending" /\ pc[calls[c].task] = "running"
        /\ calls[d].op = "wait_for_task" /\ calls[d].timeout > 0 /\ calls[d].pc = "returned"
        /\ calls[d].exc = "TimeoutError" /\ calls[d].removed

\* C20: a step of stop() and a call of on_push_frame leave the tasks that
\* are not the observer's proxies alone: their handles stay in the registry
\* or out of it, and they are neither signalled nor ended; on_push_frame
\* does not change the registry at all.
C20_OtherOwnersUntouched ==
    [][/\ ((\E c \in Calls : StopSteps(c)) \/ sent' # sent) =>
             \A t \in standalone :
                 /\ (t \in _TASKS') = (t \in _TASKS)
                 /\ must_cancel'[t] = must_cancel[t]
                 /\ tstate'[t] = tstate[t] /\ pc'[t] = pc[t]
       /\ sent' # sent => _TASKS' = _TASKS /\ must_cancel' = must_cancel]_vars

C20_Witness ==
    /\ StopReturned
    /\ Len(proxies) = 2 /\ Range(proxies) \cap _TASKS = {}
    /\ sent # <<>>
    /\ \E t \in standalone :
          t \in _TASKS /\ tstate[t] = "pending" /\ ~must_cancel[t] /\ pc[t] = "running"
====
